---- MODULE Spec2Model ----
(***************************************************************************)
(* A model of the skip list of package skiplist (src/skiplist.go, lines    *)
(* 1-620), its nodes (src/skiplist/node.go) and its iterator               *)
(* (src/iterator.go, lines 1-60).                                          *)
(*                                                                         *)
(* The heap is an arena: a function from addresses to nodes.  A list is    *)
(* the record of the fields of the SkipList struct.  Every method is an    *)
(* operator from a world W = [heap, sl, status] (and its arguments) to the *)
(* world it leaves behind; an action applies one method to the state.      *)
(* status is "ok" while the program runs, "panic" once a run-time panic    *)
(* (index out of range, nil dereference) has ended it, and "deadlock" once *)
(* the only goroutine waits for a lock that it holds itself.               *)
(***************************************************************************)
EXTENDS Integers, Sequences, FiniteSets, TLC

\* heap, sl and status are the world of the list a; last is the method the
\* goroutine called last; merge is the second list b and the goroutines
\* that a program has started beside the first; cursor is the iterator
\* that the goroutine holds
VARIABLES heap, sl, status, last, merge, cursor

vars == <<heap, sl, status, last, merge, cursor>>

----------------------------------------------------------------------------
(* Bounds of the model *)

\* keys are (0-1)..MaxKey
MaxKey == 2
\* rand.Int63() is drawn from 0..2^RandBits-1
RandBits == 2
\* the draws of one call of Combine repeat with this period
StreamLen == 2
\* the lists of SpecLevels are made with maxLevel 1..TopLevel
TopLevel == 4

\* the maxLevel every test hands to NewSkipList
MaxLevelArg == 16

Keys == (0 - 1)..MaxKey
\* values are opaque to the list: two of them tell an overwrite
Vals == {"a", "b"}
Draws == 0..(2^RandBits - 1)

----------------------------------------------------------------------------
(* Addresses, nodes, items *)

\* the nil pointer
Nil == 0
\* the address of the header node
HeaderAddr == 1
\* Go's zero value of the key type (int) and of the value type (string)
ZeroKey == 0
ZeroVal == ""

\* the nil *SLItem
NilItem == <<>>

\* newNode hands out a fresh address; addresses are opaque to the program,
\* so the allocator is modelled as taking the first free address of the
\* key's own range (freed nodes are collected once nothing refers to them).
AddrsOf(key) == {2 + (key - (0 - 1)) + i * (MaxKey + 2) : i \in 0..1}

NewAddr(h, key) ==
    CHOOSE a \in AddrsOf(key) :
        /\ a \notin DOMAIN h
        /\ \A b \in AddrsOf(key) : b \notin DOMAIN h => a <= b

\* make([]*SLNode, n): n nil slots, indexed from 0
MakeSlots(n) == [i \in 0..(n - 1) |-> Nil]

newHeader(maxLevel) ==
    [key |-> ZeroKey, val |-> ZeroVal, isHeader |-> TRUE,
     markedDeleted |-> FALSE, forward |-> MakeSlots(maxLevel)]

newNode(level, key, val) ==
    [key |-> key, val |-> val, isHeader |-> FALSE,
     markedDeleted |-> FALSE, forward |-> MakeSlots(level + 1)]

\* SLNode.Item: the key-value pair of a node (a copy)
Item(n) == <<n.key, n.val>>

ItemKey(it) == it[1]
ItemVal(it) == it[2]

\* SLNode.Level
Level(n) == Cardinality(DOMAIN n.forward) - 1

----------------------------------------------------------------------------
(* The comparator: cmp.Compare on int keys *)

compareFunc(x, y) == IF x < y THEN 0 - 1 ELSE IF x > y THEN 1 ELSE 0

\* a faulty less: the comparison turned round
lessTurned(x, y) == compareFunc(x, y) = 1

less(x, y) == compareFunc(x, y) = 0 - 1
\* a faulty equal: a greater key passes for the key
equalOrGreater(x, y) == compareFunc(x, y) >= 0
equal(x, y) == compareFunc(x, y) = 0
greater(x, y) == compareFunc(x, y) = 1
leq(x, y) == less(x, y) \/ equal(x, y)
greaterOnly(x, y) == greater(x, y)
geq(x, y) == greater(x, y) \/ equal(x, y)

----------------------------------------------------------------------------
(* Worlds *)

Panic(W) == [W EXCEPT !.status = "panic"]
Deadlock(W) == [W EXCEPT !.status = "deadlock"]

\* sync.RWMutex: Lock waits for the writer and every reader to leave,
\* RLock waits for the writer to leave.
CanLock(W) == ~W.sl.rw.writer /\ W.sl.rw.readers = 0
CanRLock(W) == ~W.sl.rw.writer
Lock(W) == [W EXCEPT !.sl.rw.writer = TRUE]
Unlock(W) == [W EXCEPT !.sl.rw.writer = FALSE]
RLock(W) == [W EXCEPT !.sl.rw.readers = @ + 1]
RUnlock(W) == [W EXCEPT !.sl.rw.readers = @ - 1]

----------------------------------------------------------------------------
(* Level generator *)

RECURSIVE TrailingZeros64(_)
TrailingZeros64(x) ==
    IF x = 0 THEN 64
    ELSE IF x % 2 = 1 THEN 0
    ELSE 1 + TrailingZeros64(x \div 2)

\* bits.TrailingZeros64(uint64(rand.Int63()) & ((1 << maxLevel) - 1));
\* rnd is the value rand.Int63() returned.  A negative shift count panics.
ShiftPanics(maxLevel) == maxLevel < 0

randomLevel(maxLevel, rnd) == TrailingZeros64(rnd % (2^maxLevel))

\* SkipList.randomLevel
slRandomLevel(W, rnd) == randomLevel(W.sl.maxLevel - 1, rnd)

----------------------------------------------------------------------------
(* searchNode *)

\* the inner loop of searchNode: follow level i from x while the next key
\* is less than searchKey
RECURSIVE walk(_, _, _, _)
walk(h, x, i, searchKey) ==
    LET n == h[x].forward[i] IN
    IF n # Nil /\ less(h[n].key, searchKey)
    THEN walk(h, n, i, searchKey)
    ELSE x

\* the outer loop of searchNode, from level i down to 0
RECURSIVE descend(_, _, _, _, _)
descend(h, x, i, searchKey, previous) ==
    IF i < 0 THEN [panic |-> FALSE, previous |-> previous, x |-> x]
    ELSE IF i \notin DOMAIN h[x].forward \/ i \notin DOMAIN previous
    THEN [panic |-> TRUE, previous |-> previous, x |-> x]
    ELSE LET y == walk(h, x, i, searchKey) IN
         descend(h, y, i - 1, searchKey, [previous EXCEPT ![i] = y])

\* sl.less calls sl.compareFunc as soon as the descent meets a node, which
\* is at the first level from sl.level down at which the header has a
\* successor; a list made without compareFunc has the nil function there
callsNil(W) ==
    /\ W.sl.compareFunc = "nil"
    /\ \E i \in 0..W.sl.level :
           i \in DOMAIN W.heap[W.sl.header].forward
           /\ W.heap[W.sl.header].forward[i] # Nil

searchNode(W, searchKey) ==
    LET s == descend(W.heap, W.sl.header, W.sl.level, searchKey,
                     MakeSlots(W.sl.maxLevel))
    IN  IF callsNil(W) THEN [s EXCEPT !.panic = TRUE] ELSE s

----------------------------------------------------------------------------
(* Insertion *)

\* Insert lines 118-123 / insert lines 563-568: a level above the list's
\* level takes the header as predecessor.  update has maxLevel slots;
\* writing slot i >= maxLevel is an index out of range.
raisePanics(W, update, lvl) == lvl > W.sl.level /\ lvl \notin DOMAIN update

raiseUpdate(W, update, lvl) ==
    [i \in DOMAIN update |->
        IF i > W.sl.level /\ i <= lvl THEN W.sl.header ELSE update[i]]

raiseLevel(W, lvl) == IF lvl > W.sl.level THEN lvl ELSE W.sl.level

\* Insert lines 125-129 / insert lines 570-574: the loop dereferences
\* update[i] and indexes its forward array
linkPanics(h, update, lvl) ==
    \E i \in 0..lvl :
        \/ i \notin DOMAIN update
        \/ update[i] = Nil
        \/ i \notin DOMAIN h[update[i]].forward

\* x.forward[i] = update[i].forward[i]; update[i].forward[i] = x
link(h, update, x, lvl, key, val) ==
    [a \in DOMAIN h \cup {x} |->
        IF a = x
        THEN [newNode(lvl, key, val) EXCEPT
                 !.forward = [i \in 0..lvl |-> h[update[i]].forward[i]]]
        ELSE [h[a] EXCEPT
                 !.forward = [i \in DOMAIN h[a].forward |->
                                 IF i <= lvl /\ update[i] = a THEN x
                                 ELSE h[a].forward[i]]]]

\* the structural part of an insertion of a new key: draw the level, raise
\* the list's level, allocate and link the node.  Yields the world and the
\* address of the new node (Nil after a panic).
splice(W, update, key, val, rnd) ==
    IF ShiftPanics(W.sl.maxLevel - 1) THEN [W |-> Panic(W), x |-> Nil]
    ELSE
    LET lvl == slRandomLevel(W, rnd) IN
    IF raisePanics(W, update, lvl) THEN [W |-> Panic(W), x |-> Nil]
    ELSE
    LET upd == raiseUpdate(W, update, lvl)
        W1 == [W EXCEPT !.sl.level = raiseLevel(W, lvl)]
    IN  IF linkPanics(W1.heap, upd, lvl) THEN [W |-> Panic(W1), x |-> Nil]
        ELSE LET x == NewAddr(W1.heap, key) IN
             [W |-> [W1 EXCEPT !.heap = link(W1.heap, upd, x, lvl, key, val)],
              x |-> x]

\* a faulty overwrite: the size is counted up as for a new key
overwriteCounting(W, x, val) ==
    [W EXCEPT !.heap[x].val = val, !.heap[x].markedDeleted = FALSE,
              !.sl.size = @ + 1]

\* the value overwrite of Insert lines 114-115 / insert lines 559-560
overwrite(W, x, val) ==
    [W EXCEPT !.heap[x].val = val, !.heap[x].markedDeleted = FALSE]

\* Insert lines 134-139 / insert lines 580-585; sl.max and sl.min are
\* dereferenced
refreshPanics(W) == W.sl.max = NilItem \/ W.sl.min = NilItem

refreshMax(W, x) ==
    IF greater(W.heap[x].key, ItemKey(W.sl.max)) THEN Item(W.heap[x]) ELSE W.sl.max

refreshMin(W, x) ==
    IF less(W.heap[x].key, ItemKey(W.sl.min)) THEN Item(W.heap[x]) ELSE W.sl.min

refresh(W, x) ==
    IF refreshPanics(W) THEN Panic(W)
    ELSE LET W1 == [W EXCEPT !.sl.max = refreshMax(W, x)] IN
         LET W2 == [W1 EXCEPT !.sl.min = refreshMin(W1, x)] IN
         [W2 EXCEPT !.sl.size = @ + 1]

\* insert, lines 555-589: the insertion without locking
insert(W, key, val, rnd) ==
    LET s == searchNode(W, key) IN
    IF s.panic THEN Panic(W)
    ELSE
    LET x == W.heap[s.x].forward[0] IN
    IF x # Nil /\ equal(W.heap[x].key, key) THEN overwrite(W, x, val)
    ELSE
    LET n == splice(W, s.previous, key, val, rnd) IN
    IF n.W.status # "ok" THEN n.W
    ELSE
    LET W1 == IF n.W.sl.min = NilItem \/ n.W.sl.max = NilItem
              THEN [n.W EXCEPT !.sl.max = Item(n.W.heap[n.x]),
                               !.sl.min = Item(n.W.heap[n.x])]
              ELSE n.W
    IN  refresh(W1, n.x)

\* InsertAll, lines 147-153: sl.rw.Lock(), one insert for every item of the
\* slice, sl.rw.Unlock().  The slice is as long as the caller likes, so the
\* loop is modelled turn by turn: InsertAllLock, then InsertAllItem for every
\* item, then InsertAllUnlock.
InsertAllLock(W) == IF ~CanLock(W) THEN Deadlock(W) ELSE Lock(W)
itemThenUnlock(W, key, val, rnd) == Unlock(insert(W, key, val, rnd))
InsertAllItem(W, key, val, rnd) == insert(W, key, val, rnd)
InsertAllUnlock(W) == Unlock(W)

neverBlocks(W) == FALSE
\* Size, lines 58-63, and IsEmpty, lines 66-71: IsEmpty takes the read lock
\* and calls Size, which takes it again
IsEmptyBlocks(W) == ~CanRLock(W)
IsEmpty(W) == W.sl.size = 0

\* Insert lines 113-143, under the write lock that W0 holds: update and x
\* are what searchNode returned under the read lock; IsEmpty (line 131)
\* asks for the read lock while the caller holds the write lock
InsertWrite(W0, key, val, rnd, update, x) ==
    IF x # Nil /\ equal(W0.heap[x].key, key) THEN Unlock(overwrite(W0, x, val))
    ELSE
    LET n == splice(W0, update, key, val, rnd) IN
    IF n.W.status # "ok" THEN n.W
    ELSE IF IsEmptyBlocks(n.W) THEN Deadlock(n.W)
    ELSE
    LET W1 == IF IsEmpty(n.W)
              THEN [n.W EXCEPT !.sl.min = Item(n.W.heap[n.x]),
                               !.sl.max = Item(n.W.heap[n.x])]
              ELSE n.W
    IN  LET W2 == refresh(W1, n.x) IN
        IF W2.status # "ok" THEN W2 ELSE Unlock(W2)

\* Insert, lines 106-144: the descent under the read lock, the rest under
\* the write lock
Insert(W, key, val, rnd) ==
    IF ~CanRLock(W) THEN Deadlock(W)
    ELSE
    LET s == searchNode(W, key) IN
    IF s.panic THEN Panic(RLock(W))
    ELSE
    LET x == W.heap[s.x].forward[0] IN
    IF ~CanLock(W) THEN Deadlock(W)
    ELSE InsertWrite(Lock(W), key, val, rnd, s.previous, x)

----------------------------------------------------------------------------
(* Search *)

\* Search, lines 229-241
Search(W, key) ==
    LET s == searchNode(W, key) IN
    IF s.panic THEN [panic |-> TRUE, val |-> ZeroVal, ok |-> FALSE]
    ELSE
    LET x == W.heap[s.x].forward[0] IN
    IF x # Nil /\ equal(W.heap[x].key, key) /\ ~W.heap[x].markedDeleted
    THEN [panic |-> FALSE, val |-> W.heap[x].val, ok |-> TRUE]
    ELSE [panic |-> FALSE, val |-> ZeroVal, ok |-> FALSE]

----------------------------------------------------------------------------
(* Garbage collection: a node nothing refers to any more is gone *)

Succs(h, a) == {h[a].forward[i] : i \in DOMAIN h[a].forward} \ {Nil}

RECURSIVE Reach(_, _)
Reach(h, seen) ==
    LET more == (UNION {Succs(h, a) : a \in seen}) \ seen IN
    IF more = {} THEN seen ELSE Reach(h, seen \cup more)

Roots(W) == {W.sl.header} \cup {W.sl.tombstones[i] : i \in DOMAIN W.sl.tombstones}

collect(W) ==
    LET keep == Reach(W.heap, Roots(W)) IN
    [W EXCEPT !.heap = [a \in keep |-> W.heap[a]]]

----------------------------------------------------------------------------
(* Deletion *)

\* a faulty unlink: x is taken out of level 0 only
unlinkBottom(h, update, x, i, level) ==
    IF h[update[0]].forward[0] # x THEN h
    ELSE [h EXCEPT ![update[0]].forward[0] = h[x].forward[0]]

\* Delete lines 170-175 / delete lines 600-605: unlink x level by level, up
\* to the first level whose predecessor does not point at x
RECURSIVE unlink(_, _, _, _, _)
unlink(h, update, x, i, level) ==
    IF i > level THEN h
    ELSE IF h[update[i]].forward[i] # x THEN h
    ELSE unlink([h EXCEPT ![update[i]].forward[i] = h[x].forward[i]],
                update, x, i + 1, level)

\* a faulty level loop: the level is never lowered
neverShrinks(h, header, level) == level

\* Delete lines 178-180 / delete lines 608-610
RECURSIVE shrink(_, _, _)
shrink(h, header, level) ==
    IF level > 0 /\ h[header].forward[level] = Nil
    THEN shrink(h, header, level - 1)
    ELSE level

\* a faulty remove: the size is not counted down
removeUncounted(W, update, x) ==
    LET h == unlink(W.heap, update, x, 0, W.sl.level) IN
    collect([W EXCEPT !.heap = h,
                      !.sl.level = shrink(h, W.sl.header, W.sl.level)])

\* the unlinking, the size and the level of a deletion
remove(W, update, x) ==
    LET h == unlink(W.heap, update, x, 0, W.sl.level) IN
    collect([W EXCEPT !.heap = h,
                      !.sl.size = @ - 1,
                      !.sl.level = shrink(h, W.sl.header, W.sl.level)])

\* delete, lines 593-612: the deletion without locking; sl.max is
\* dereferenced, sl.min is left alone
delete(W, key) ==
    LET s == searchNode(W, key) IN
    IF s.panic THEN Panic(W)
    ELSE
    LET update == s.previous
        x == W.heap[s.x].forward[0]
    IN
    IF x # Nil /\ equal(W.heap[x].key, key)
    THEN IF W.sl.max = NilItem THEN Panic(W)
         ELSE LET W1 == IF equal(W.heap[x].key, ItemKey(W.sl.max))
                        THEN [W EXCEPT !.sl.max = Item(W.heap[update[0]])]
                        ELSE W
              IN  remove(W1, update, x)
    ELSE W

\* Delete lines 164-169: the cached max becomes the item of the level-0
\* predecessor, the cached min the item of the predecessor's successor
deleteMax(W, update, x) ==
    IF equal(W.heap[x].key, ItemKey(W.sl.max)) /\ update[0] # Nil
    THEN Item(W.heap[update[0]])
    ELSE W.sl.max

deleteMin(W, update, x) ==
    IF equal(W.heap[x].key, ItemKey(W.sl.min)) /\ W.heap[update[0]].forward[0] # Nil
    THEN Item(W.heap[W.heap[update[0]].forward[0]])
    ELSE W.sl.min

\* Delete lines 170-175 with an update that was filled before sl.level was
\* raised: line 171 dereferences update[i], nil above the level of the
\* search
RECURSIVE unlinkPanics(_, _, _, _, _)
unlinkPanics(h, update, x, i, level) ==
    IF i > level THEN FALSE
    ELSE IF update[i] = Nil THEN TRUE
    ELSE IF h[update[i]].forward[i] # x THEN FALSE
    ELSE unlinkPanics([h EXCEPT ![update[i]].forward[i] = h[x].forward[i]],
                      update, x, i + 1, level)

\* Delete lines 163-182, under the write lock that W0 holds: update and x
\* are what searchNode returned under the read lock
DeleteWrite(W0, key, update, x) ==
    IF x # Nil /\ equal(W0.heap[x].key, key)
    THEN IF W0.sl.max = NilItem THEN Panic(W0)
         ELSE LET W1 == [W0 EXCEPT !.sl.max = deleteMax(W0, update, x)] IN
              IF W1.sl.min = NilItem THEN Panic(W1)
              ELSE LET W2 == [W1 EXCEPT !.sl.min = deleteMin(W1, update, x)] IN
                   IF unlinkPanics(W2.heap, update, x, 0, W2.sl.level)
                   THEN Panic(W2)
                   ELSE Unlock(remove(W2, update, x))
    ELSE Unlock(W0)

\* Delete, lines 156-183
Delete(W, key) ==
    IF ~CanRLock(W) THEN Deadlock(W)
    ELSE
    LET s == searchNode(W, key) IN
    IF s.panic THEN Panic(RLock(W))
    ELSE
    LET update == s.previous
        x == W.heap[s.x].forward[0]
    IN
    IF ~CanLock(W) THEN Deadlock(W)
    ELSE DeleteWrite(Lock(W), key, update, x)

\* DeleteAll, lines 220-226: as InsertAll, one delete for every key
DeleteAllLock(W) == IF ~CanLock(W) THEN Deadlock(W) ELSE Lock(W)
DeleteAllItem(W, key) == delete(W, key)
DeleteAllUnlock(W) == Unlock(W)

\* LazyDelete lines 199-207
lazyMin(W, update, x) ==
    IF W.heap[update[0]].isHeader
    THEN Item(W.heap[W.heap[x].forward[0]])
    ELSE Item(W.heap[update[0]])

\* LazyDelete lines 208-214
lazyMax(W, update, x) ==
    IF W.heap[x].forward[0] # Nil
    THEN Item(W.heap[W.heap[x].forward[0]])
    ELSE Item(W.heap[update[0]])

\* LazyDelete, lines 189-217: the node after the predecessors is marked
\* whatever its key is, and is not appended to sl.tombstones
LazyDelete(W, key) ==
    IF ~CanRLock(W) THEN Deadlock(W)
    ELSE
    LET s == searchNode(W, key) IN
    IF s.panic THEN Panic(RLock(W))
    ELSE
    LET update == s.previous
        x == W.heap[s.x].forward[0]
    IN
    IF ~CanLock(W) THEN Deadlock(W)
    ELSE
    LET W0 == Lock(W) IN
    IF x # Nil
    THEN LET W1 == [W0 EXCEPT !.heap[x].markedDeleted = TRUE, !.sl.size = @ - 1] IN
         LET W2 == IF W1.sl.size <= 1
                   THEN [W1 EXCEPT !.sl.max = NilItem, !.sl.min = NilItem]
                   ELSE IF W1.sl.min = NilItem THEN Panic(W1)
                   ELSE IF equal(W1.heap[x].key, ItemKey(W1.sl.min))
                   THEN IF W1.heap[update[0]].isHeader /\ W1.heap[x].forward[0] = Nil
                        THEN Panic(W1)
                        ELSE [W1 EXCEPT !.sl.min = lazyMin(W1, update, x)]
                   ELSE W1
         IN  IF W2.status # "ok" THEN W2
             ELSE IF W2.sl.max = NilItem THEN Panic(W2)
             ELSE IF equal(W2.heap[x].key, ItemKey(W2.sl.max))
             THEN Unlock([W2 EXCEPT !.sl.max = lazyMax(W2, update, x)])
             ELSE Unlock(W2)
    ELSE Unlock(W0)

\* Clean, lines 425-435
RECURSIVE cleanEach(_, _, _)
cleanEach(W, ts, i) ==
    IF i > Len(ts) \/ W.status # "ok" THEN W
    ELSE IF W.heap[ts[i]].markedDeleted
    THEN cleanEach(delete(W, W.heap[ts[i]].key), ts, i + 1)
    ELSE cleanEach(W, ts, i + 1)

Clean(W) ==
    IF ~CanLock(W) THEN Deadlock(W)
    ELSE LET W1 == cleanEach(Lock(W), W.sl.tombstones, 1) IN
         IF W1.status # "ok" THEN W1
         ELSE Unlock(collect([W1 EXCEPT !.sl.tombstones = <<>>]))

\* Clear, lines 438-449: the new header has sl.maxLevel slots
Clear(W) ==
    IF ~CanLock(W) THEN Deadlock(W)
    ELSE Unlock(collect(
             [Lock(W) EXCEPT !.sl.size = 0, !.sl.level = 0,
                             !.sl.tombstones = <<>>,
                             !.sl.max = NilItem, !.sl.min = NilItem,
                             !.heap[W.sl.header] = newHeader(W.sl.maxLevel)]))

----------------------------------------------------------------------------
(* The iterator of src/iterator.go, lines 1-60; it.curr is a node address *)

HasNext(curr) == curr # Nil

RECURSIVE skipTombstones(_, _)
skipTombstones(h, curr) ==
    IF curr # Nil /\ h[curr].markedDeleted
    THEN skipTombstones(h, h[curr].forward[0])
    ELSE curr

advanceStep(h, curr) == IF curr # Nil THEN h[curr].forward[0] ELSE curr

advance(h, curr) ==
    skipTombstones(h, advanceStep(h, skipTombstones(h, curr)))

\* Next: the item under the cursor, then (deferred) advance
itNext(h, curr) ==
    [item |-> IF HasNext(curr) THEN Item(h[curr]) ELSE NilItem,
     curr |-> advance(h, curr)]

\* All: it.curr.Item() dereferences the cursor that skipTombstones left
RECURSIVE All(_, _, _)
All(h, curr, results) ==
    IF ~HasNext(curr) THEN [panic |-> FALSE, items |-> results]
    ELSE LET c == skipTombstones(h, curr) IN
         IF c = Nil THEN [panic |-> TRUE, items |-> results]
         ELSE All(h, advance(h, c), Append(results, Item(h[c])))

\* UpTo: the bound is tested on the cursor before the tombstones are skipped
RECURSIVE UpTo(_, _, _, _)
UpTo(h, curr, stop, results) ==
    IF ~(HasNext(curr) /\ compareFunc(h[curr].key, stop) <= 0)
    THEN [panic |-> FALSE, items |-> results]
    ELSE LET c == skipTombstones(h, curr) IN
         IF c = Nil THEN [panic |-> TRUE, items |-> results]
         ELSE UpTo(h, advance(h, c), stop, Append(results, Item(h[c])))

\* Iterator, lines 415-417: the cursor starts on the first node
Iterator(W) == W.heap[W.sl.header].forward[0]

\* ToArray, lines 420-422
ToArray(W) == All(W.heap, Iterator(W), <<>>)

\* Range, lines 244-254
Range(W, start, end) ==
    LET s == searchNode(W, start) IN
    IF s.panic THEN [panic |-> TRUE, items |-> <<>>]
    ELSE
    LET startNode == W.heap[s.x].forward[0] IN
    IF startNode # Nil /\ geq(W.heap[startNode].key, start)
    THEN UpTo(W.heap, startNode, end, <<>>)
    ELSE [panic |-> FALSE, items |-> <<>>]

\* Size, Min and Max, lines 58-63 and 90-103
Size(W) == W.sl.size
Min(W) == W.sl.min
Max(W) == W.sl.max

----------------------------------------------------------------------------
(* The state machine: one goroutine calling the methods of one list *)

\* NewSkipList, lines 25-37: sl.maxLevel is the argument less one, the
\* header has as many slots as the argument says.  compareFunc holds the
\* name of the function the constructor stored.
NewSkipList(maxLevel) ==
    [heap |-> (HeaderAddr :> newHeader(maxLevel)),
     sl |-> [rw |-> [writer |-> FALSE, readers |-> 0],
             maxLevel |-> maxLevel - 1, level |-> 0, size |-> 0,
             compareFunc |-> "cmp.Compare",
             header |-> HeaderAddr, min |-> NilItem, max |-> NilItem,
             tombstones |-> <<>>],
     status |-> "ok"]

World == [heap |-> heap, sl |-> sl, status |-> status]

\* the goroutine is between two calls: the program runs and no call holds
\* the list's lock
Idle == status = "ok" /\ ~sl.rw.writer /\ sl.rw.readers = 0

\* the goroutine is inside the loop of InsertAll (DeleteAll)
InBatch(op) == status = "ok" /\ sl.rw.writer /\ last = op

\* no second list, no further goroutine
NoMerge == [b |-> <<>>, t |-> <<>>]

\* the goroutine holds no iterator
NoIter == <<>>

Becomes(W, op) ==
    /\ heap' = W.heap
    /\ sl' = W.sl
    /\ status' = W.status
    /\ last' = op
    /\ merge' = merge
    /\ cursor' = cursor

Init ==
    /\ heap = NewSkipList(MaxLevelArg).heap
    /\ sl = NewSkipList(MaxLevelArg).sl
    /\ status = "ok"
    /\ last = "NewSkipList"
    /\ merge = NoMerge
    /\ cursor = NoIter

CallInsert ==
    \E key \in Keys, val \in Vals, rnd \in Draws :
        /\ Idle
        /\ Becomes(Insert(World, key, val, rnd), "Insert")

CallInsertAll ==
    /\ Idle
    /\ Becomes(InsertAllLock(World), "InsertAll")

StepInsertAll ==
    \E key \in Keys, val \in Vals, rnd \in Draws :
        /\ InBatch("InsertAll")
        /\ Becomes(InsertAllItem(World, key, val, rnd), "InsertAll")

ReturnInsertAll ==
    /\ InBatch("InsertAll")
    /\ Becomes(InsertAllUnlock(World), "InsertAll")

CallDelete ==
    \E key \in Keys :
        /\ Idle
        /\ Becomes(Delete(World, key), "Delete")

CallDeleteAll ==
    /\ Idle
    /\ Becomes(DeleteAllLock(World), "DeleteAll")

StepDeleteAll ==
    \E key \in Keys :
        /\ InBatch("DeleteAll")
        /\ Becomes(DeleteAllItem(World, key), "DeleteAll")

ReturnDeleteAll ==
    /\ InBatch("DeleteAll")
    /\ Becomes(DeleteAllUnlock(World), "DeleteAll")

CallLazyDelete ==
    \E key \in Keys :
        /\ Idle
        /\ Becomes(LazyDelete(World, key), "LazyDelete")

CallClean ==
    /\ Idle
    /\ Becomes(Clean(World), "Clean")

CallClear ==
    /\ Idle
    /\ Becomes(Clear(World), "Clear")

Next ==
    \/ CallInsert
    \/ CallInsertAll
    \/ StepInsertAll
    \/ ReturnInsertAll
    \/ CallDelete
    \/ CallDeleteAll
    \/ StepDeleteAll
    \/ ReturnDeleteAll
    \/ CallLazyDelete
    \/ CallClean
    \/ CallClear

Spec == Init /\ [][Next]_vars

\* the goroutine only ever sets: Insert and InsertAll
SetNext ==
    \/ CallInsert
    \/ CallInsertAll
    \/ StepInsertAll
    \/ ReturnInsertAll

SpecSet == Init /\ [][SetNext]_vars

\* the goroutine sets and deletes eagerly: no LazyDelete, no Clean
DeleteNext ==
    \/ CallInsert
    \/ CallInsertAll
    \/ StepInsertAll
    \/ ReturnInsertAll
    \/ CallDelete
    \/ CallDeleteAll
    \/ StepDeleteAll
    \/ ReturnDeleteAll
    \/ CallClear

SpecDelete == Init /\ [][DeleteNext]_vars

\* the goroutine sets and deletes lazily: no Delete, no DeleteAll, no Clear
LazyNext ==
    \/ CallInsert
    \/ CallInsertAll
    \/ StepInsertAll
    \/ ReturnInsertAll
    \/ CallLazyDelete
    \/ CallClean

SpecLazy == Init /\ [][LazyNext]_vars

----------------------------------------------------------------------------
(* What a caller can see of a list *)

\* the nodes of the level-0 chain from node a on, as the iterator's advance
\* walks them (tombstoned nodes included)
RECURSIVE chain(_, _)
chain(h, a) == IF a = Nil THEN <<>> ELSE <<a>> \o chain(h, h[a].forward[0])

Chain(W) == chain(W.heap, W.heap[W.sl.header].forward[0])

ChainKeys(W) ==
    LET c == Chain(W) IN [i \in 1..Len(c) |-> W.heap[c[i]].key]

ItemKeys(items) == [i \in 1..Len(items) |-> ItemKey(items[i])]

\* cmp.Compare on int keys: strictly increasing is < on neighbours
Increasing(ks) == \A i \in 1..(Len(ks) - 1) : ks[i] < ks[i + 1]

Occurrences(W, key) ==
    LET c == Chain(W) IN
    Cardinality({i \in 1..Len(c) : W.heap[c[i]].key = key})

\* key has a node in the level-0 chain, tombstoned or not
Linked(W, key) == Occurrences(W, key) > 0

\* the nodes of the level-0 chain that are not tombstoned
Live(W) ==
    LET c == Chain(W) IN
    {c[i] : i \in {j \in 1..Len(c) : ~W.heap[c[j]].markedDeleted}}

\* the worlds in which a Set of key and val, called in the current state,
\* returns: Insert called between two calls, one turn of the loop of
\* InsertAll inside it
SetReturns(key, val) ==
    IF Idle
    THEN {W \in {Insert(World, key, val, rnd) : rnd \in Draws} :
             W.status = "ok"}
    ELSE IF InBatch("InsertAll")
    THEN {W \in {InsertAllItem(World, key, val, rnd) : rnd \in Draws} :
             W.status = "ok"}
    ELSE {}

\* the worlds in which Delete of key, called in the current state, returns:
\* Delete called between two calls, one turn of the loop of DeleteAll
\* inside it
DeleteReturns(key) ==
    IF Idle
    THEN {W \in {Delete(World, key)} : W.status = "ok"}
    ELSE IF InBatch("DeleteAll")
    THEN {W \in {DeleteAllItem(World, key)} : W.status = "ok"}
    ELSE {}

\* the worlds in which LazyDelete of key, called in the current state,
\* returns
LazyDeleteReturns(key) ==
    IF Idle
    THEN {W \in {LazyDelete(World, key)} : W.status = "ok"}
    ELSE {}

CleanReturns ==
    IF Idle THEN {W \in {Clean(World)} : W.status = "ok"} ELSE {}

\* the worlds in which a call that is given another key than key returns
OtherKeyReturns(key) ==
    UNION {UNION {SetReturns(k, v) : v \in Vals}
              \cup DeleteReturns(k) \cup LazyDeleteReturns(k) :
           k \in Keys \ {key}}

\* what Search returns for a key it finds with value val
Found(val) == [panic |-> FALSE, val |-> val, ok |-> TRUE]

----------------------------------------------------------------------------
(* C1 *)

\* C1: after any sequence of Insert and InsertAll calls on an empty list,
\* the keys of the level-0 chain are strictly increasing, and ToArray (which
\* is Iterator().All()) returns normally with exactly these keys.
C1_Ordering ==
    /\ Increasing(ChainKeys(World))
    /\ ~ToArray(World).panic
    /\ ItemKeys(ToArray(World).items) = ChainKeys(World)

\* InsertAll has returned with every key of the model in the list
C1_Witness ==
    /\ Idle
    /\ last = "InsertAll"
    /\ Len(ToArray(World).items) = Cardinality(Keys)

----------------------------------------------------------------------------
(* C2 *)

\* C2: a Set that returns leaves its key exactly once in the level-0 chain
\* (and, the chain being strictly increasing, no key twice); when the key already had a node, the Set writes the
\* value into that node, allocates no node, changes no forward pointer and
\* leaves size as it was.
C2_Uniqueness ==
    \A key \in Keys, val \in Vals : \A W \in SetReturns(key, val) :
        /\ Occurrences(W, key) = 1
        /\ Increasing(ChainKeys(W))
        /\ Linked(World, key) =>
              /\ DOMAIN W.heap = DOMAIN heap
              /\ \A a \in DOMAIN heap :
                    /\ W.heap[a].forward = heap[a].forward
                    /\ W.heap[a].key = heap[a].key
                    /\ W.heap[a].val =
                          IF heap[a].key = key /\ ~heap[a].isHeader
                          THEN val ELSE heap[a].val
              /\ W.sl.size = sl.size
              /\ W.sl.level = sl.level

\* Insert has returned after overwriting: the list holds every key once and
\* the value of a key is the second one
C2_Witness ==
    /\ Idle
    /\ last = "Insert"
    /\ sl.size = Cardinality(Keys)
    /\ \E a \in Live(World) : heap[a].val = "b"

----------------------------------------------------------------------------
(* C3 *)

\* C3: after a Set of key k and value v has returned, Search(k) returns
\* (v, true); a call that returns and is neither given k nor empties the
\* list leaves the answer of Search(k) as it was: a found key stays found
\* with the value last set, and a key that is not found (as every key is on
\* the new list) stays not found.
C3_RoundTrip ==
    \A k \in Keys :
        /\ \A v \in Vals : \A W \in SetReturns(k, v) : Search(W, k) = Found(v)
        /\ \A W \in OtherKeyReturns(k) \cup CleanReturns :
              /\ Search(World, k).ok => Search(W, k) = Search(World, k)
              /\ ~Search(World, k).ok => ~Search(W, k).ok

----------------------------------------------------------------------------
(* C4 *)

\* C4: a Delete of a key k that has a node in the list, once it has
\* returned, leaves k without a node and not found by Search, size one
\* less, and every other key found or not found, with its value, as before.
C4_DeleteRemoves ==
    \A k \in Keys : Linked(World, k) =>
        \A W \in DeleteReturns(k) :
            /\ ~Linked(W, k)
            /\ ~Search(W, k).ok
            /\ W.sl.size = sl.size - 1
            /\ \A j \in Keys \ {k} : Search(W, j) = Search(World, j)

\* between two calls the list holds every key, one of them at level 1, and
\* Delete of that key returns
C4_Witness ==
    /\ Idle
    /\ \A k \in Keys : Search(World, k).ok
    /\ \E k \in Keys : \E a \in Live(World) :
          /\ heap[a].key = k
          /\ Level(heap[a]) = 1
          /\ DeleteReturns(k) # {}

----------------------------------------------------------------------------
(* C8 *)

\* C8: a Delete of a key that has no node in the list (never inserted, or
\* deleted before) returns and leaves the list as it was: size, level,
\* cached min and max, and every forward pointer of every node.
C8_DeleteAbsent ==
    \A k \in Keys : ~Linked(World, k) =>
        /\ Idle => Delete(World, k) = World
        /\ InBatch("DeleteAll") => DeleteAllItem(World, k) = World

\* a Delete has returned, and the list holds some keys and lacks others
C8_Witness ==
    /\ Idle
    /\ last = "Delete"
    /\ sl.level = 1
    /\ sl.size = 2
    /\ \E k \in Keys : ~Linked(World, k) /\ ItemKey(sl.min) < k /\ k < ItemKey(sl.max)

----------------------------------------------------------------------------
(* C5 *)

\* C5: whenever a call has returned, size is the number of nodes of the
\* level-0 chain that are not tombstoned.
C5_SizeConsistency ==
    status = "ok" => sl.size = Cardinality(Live(World))

----------------------------------------------------------------------------
(* C6 *)

\* C6: between two calls, when the list holds a node, Min() is the item of
\* the first key and Max() the item of the last key that ToArray returns
\* (so after a Delete of the smallest key Min() is the key that followed
\* it, and after a Delete of the greatest key Max() is the key before it).
C6_MinMax ==
    Idle /\ Chain(World) # <<>> =>
        LET keys == ItemKeys(ToArray(World).items) IN
        /\ Min(World) # NilItem
        /\ Max(World) # NilItem
        /\ ItemKey(Min(World)) = keys[1]
        /\ ItemKey(Max(World)) = keys[Len(keys)]

----------------------------------------------------------------------------
(* C7 *)

\* C7: between two calls, when the list holds no node (a new list, a list
\* after Clear, a list whose every key Delete or DeleteAll has removed),
\* Min() and Max() are nil.
C7_MinMaxNilWhenEmpty ==
    Idle /\ Chain(World) = <<>> =>
        /\ Min(World) = NilItem
        /\ Max(World) = NilItem

----------------------------------------------------------------------------
(* C9 *)

\* C9: between two calls, LazyDelete of a key k that Search finds returns
\* normally; after it Search does not find k, Size() is one less, and the
\* node of k is still in the level-0 chain.
C9_LazyDelete ==
    Idle =>
        \A k \in Keys : Search(World, k).ok =>
            LET W == LazyDelete(World, k) IN
            /\ W.status = "ok"
            /\ ~Search(W, k).ok
            /\ Size(W) = Size(World) - 1
            /\ Linked(W, k)

----------------------------------------------------------------------------
(* C10 *)

\* the items of the nodes that are in the level-0 chain and not tombstoned
LiveItems(W) == {Item(W.heap[a]) : a \in Live(W)}

SeqRange(items) == {items[i] : i \in 1..Len(items)}

\* C10: between two calls, wherever the tombstones are, Iterator().Next(),
\* Iterator().All() (ToArray) and Range (UpTo) return normally, return only
\* items of nodes that are not tombstoned, and Range returns no key greater
\* than its end.
C10_IterationSkipsTombstones ==
    Idle =>
        /\ LET n == itNext(heap, Iterator(World)) IN
               n.item = NilItem \/ n.item \in LiveItems(World)
        /\ ~ToArray(World).panic
        /\ SeqRange(ToArray(World).items) \subseteq LiveItems(World)
        /\ \A start \in Keys, end \in Keys :
              LET r == Range(World, start, end) IN
              /\ ~r.panic
              /\ SeqRange(r.items) \subseteq LiveItems(World)
              /\ \A it \in SeqRange(r.items) : ItemKey(it) <= end

----------------------------------------------------------------------------
(* C11 *)

\* C11: between two calls, LazyDelete of a key that has no node in the list
\* returns normally and leaves the list as it was: no node becomes
\* tombstoned, and size and the cached min and max keep their values.
C11_LazyDeleteAbsent ==
    Idle =>
        \A k \in Keys : ~Linked(World, k) => LazyDelete(World, k) = World

----------------------------------------------------------------------------
(* C12 *)

\* the keys of S as a slice, in ascending order
RECURSIVE Ascending(_)
Ascending(S) ==
    IF S = {} THEN <<>>
    ELSE LET m == CHOOSE x \in S : \A y \in S : x <= y IN
         <<m>> \o Ascending(S \ {m})

\* for _, key := range keys { sl.LazyDelete(key) }, up to the first fault
RECURSIVE LazyDeleteEach(_, _, _)
LazyDeleteEach(W, keys, i) ==
    IF i > Len(keys) \/ W.status # "ok" THEN W
    ELSE LazyDeleteEach(LazyDelete(W, keys[i]), keys, i + 1)

\* for _, key := range keys { sl.Delete(key) }, up to the first fault
RECURSIVE DeleteEach(_, _, _)
DeleteEach(W, keys, i) ==
    IF i > Len(keys) \/ W.status # "ok" THEN W
    ELSE DeleteEach(Delete(W, keys[i]), keys, i + 1)

\* what a caller observes of a list: whether the calls returned, and then
\* the items ToArray returns, what Search returns for every key, and Size
Observable(W) ==
    IF W.status # "ok" THEN [status |-> W.status]
    ELSE [status |-> "ok",
          items |-> ToArray(W),
          gets |-> [k \in Keys |-> Search(W, k)],
          size |-> Size(W)]

\* C12: between two calls, for every set S of keys, LazyDelete of every key
\* of S followed by Clean leaves the same observable list (the calls
\* return, and ToArray, Search of every key and Size agree) as Delete of
\* every key of S.
C12_LazyCleanIsDelete ==
    Idle =>
        \A S \in SUBSET Keys :
            LET lazied == LazyDeleteEach(World, Ascending(S), 1)
                cleaned == IF lazied.status = "ok" THEN Clean(lazied) ELSE lazied
            IN  Observable(cleaned) = Observable(DeleteEach(World, Ascending(S), 1))

----------------------------------------------------------------------------
(* C13 *)

\* C13: between two calls, for a key k that Search finds, LazyDelete(k)
\* followed by Insert(k, v), when both return, allocates no node and leaves
\* the same observable list (ToArray, Search of every key, Size) as
\* Insert(k, v) alone.
C13_SetRevives ==
    Idle =>
        \A k \in Keys, v \in Vals, rnd \in Draws :
            Search(World, k).ok =>
                LET lazied == LazyDelete(World, k)
                    revived == Insert(lazied, k, v, rnd)
                IN  lazied.status = "ok" /\ revived.status = "ok" =>
                        /\ DOMAIN revived.heap = DOMAIN heap
                        /\ Observable(revived) = Observable(Insert(World, k, v, rnd))

----------------------------------------------------------------------------
(* C14 *)

\* the nodes that the header reaches at any level
Reachable(W) == Reach(W.heap, {W.sl.header})

\* C14: between two calls, Clean, when it returns, leaves no tombstoned
\* node that the header reaches at any level and leaves the tombstone list
\* empty; and LazyDelete of a key that Search finds, when it returns, has
\* put the node of the key in the tombstone list.
C14_CleanSweeps ==
    Idle =>
        /\ LET W == Clean(World) IN
               W.status = "ok" =>
                   /\ \A a \in Reachable(W) : ~W.heap[a].markedDeleted
                   /\ W.sl.tombstones = <<>>
        /\ \A k \in Keys : Search(World, k).ok =>
               LET W == LazyDelete(World, k) IN
               W.status = "ok" =>
                   \E i \in DOMAIN W.sl.tombstones :
                       W.heap[W.sl.tombstones[i]].key = k

----------------------------------------------------------------------------
(* C15 *)

TombstoneFree(W) == Live(W) = SeqRange(Chain(W))

\* the items of the level-0 chain, in the order of the chain
ChainItems(W) ==
    LET c == Chain(W) IN [i \in 1..Len(c) |-> Item(W.heap[c[i]])]

\* the items of the list with lo <= key <= hi, in the order of the chain
Within(W, lo, hi) ==
    LET keep(it) == lo <= ItemKey(it) /\ ItemKey(it) <= hi
    IN  SelectSeq(ChainItems(W), keep)

----------------------------------------------------------------------------
(* Combine, lines 261-376 *)

\* the draws rand.Int63() returns during one call of Combine
Streams == [1..StreamLen -> Draws]

\* the n-th draw of the call
drawOf(rnds, n) == rnds[((n - 1) % StreamLen) + 1]

\* a faulty count: no element is counted
uncounted(node, newSize) == newSize
\* lines 289-293, 317-321, 333-337: a tombstoned node is not counted
counted(node, newSize) == IF node.markedDeleted THEN newSize ELSE newSize + 1

\* lines 289-290, 317-318, 333-334: a tombstoned node of an operand goes
\* to the tombstones of the result; the pointer is the operand and the
\* address in the operand's heap
entombed(tombstones, of, p, node) ==
    IF node.markedDeleted
    THEN Append(tombstones, [of |-> of, node |-> p])
    ELSE tombstones

\* newNode and the loop of lines 308-312 (323-327, 339-343): a copy of the
\* operand's node p goes to the end of the new chain.  previous[i] with i
\* beyond the slots of previous is an index out of range.
emit(st, W, of, p, level) ==
    LET node == W.heap[p] IN
    IF linkPanics(st.h, st.previous, level) THEN [st EXCEPT !.panic = TRUE]
    ELSE LET x == NewAddr(st.h, node.key) IN
         [st EXCEPT
             !.h = link(st.h, st.previous, x, level, node.key, node.val),
             !.previous = [i \in DOMAIN st.previous |->
                              IF i <= level THEN x ELSE st.previous[i]],
             !.newSize = counted(node, st.newSize),
             !.tombstones = entombed(st.tombstones, of, p, node),
             !.n = st.n + 1]

\* a faulty collision: the node of the first list is kept
keepFirst(W1, p1, k1, k2) == p1
\* lines 304-306: on equal keys the node of the first list is skipped
skipFirst(W1, p1, k1, k2) ==
    IF equal(k1, k2) THEN W1.heap[p1].forward[0] ELSE p1

\* the loop of lines 281-313
RECURSIVE mergeBoth(_, _, _, _)
mergeBoth(st, W1, W2, rnds) ==
    IF st.panic \/ st.p1 = Nil \/ st.p2 = Nil THEN st
    ELSE
    LET k1 == W1.heap[st.p1].key
        k2 == W2.heap[st.p2].key
        level == randomLevel(st.newMaxLevel, drawOf(rnds, st.n + 1))
        st1 == [st EXCEPT !.newLevel = IF level > @ THEN level ELSE @]
    IN  IF less(k1, k2)
        THEN mergeBoth([emit(st1, W1, "sl1", st.p1, level) EXCEPT
                            !.p1 = W1.heap[st.p1].forward[0]],
                       W1, W2, rnds)
        ELSE mergeBoth([emit(st1, W2, "sl2", st.p2, level) EXCEPT
                            !.p2 = W2.heap[st.p2].forward[0],
                            !.p1 = skipFirst(W1, st.p1, k1, k2)],
                       W1, W2, rnds)

\* the loop of lines 315-329: the rest of the first list
RECURSIVE mergeFirst(_, _, _)
mergeFirst(st, W1, rnds) ==
    IF st.panic \/ st.p1 = Nil THEN st
    ELSE
    LET level == randomLevel(st.newMaxLevel, drawOf(rnds, st.n + 1)) IN
    mergeFirst([emit(st, W1, "sl1", st.p1, level) EXCEPT
                    !.p1 = W1.heap[st.p1].forward[0]],
               W1, rnds)

\* the loop of lines 331-345: the rest of the second list
RECURSIVE mergeSecond(_, _, _)
mergeSecond(st, W2, rnds) ==
    IF st.panic \/ st.p2 = Nil THEN st
    ELSE
    LET level == randomLevel(st.newMaxLevel, drawOf(rnds, st.n + 1)) IN
    mergeSecond([emit(st, W2, "sl2", st.p2, level) EXCEPT
                     !.p2 = W2.heap[st.p2].forward[0]],
                W2, rnds)

\* lines 265-268
newMaxLevel(W1, W2) ==
    IF W2.sl.maxLevel > W1.sl.maxLevel THEN W2.sl.maxLevel ELSE W1.sl.maxLevel

\* lines 353-356; sl2.min and sl1.min are dereferenced
newMin(W1, W2) ==
    IF less(ItemKey(W2.sl.min), ItemKey(W1.sl.min)) THEN W2.sl.min ELSE W1.sl.min

\* lines 358-361: the branch assigns to newMin, newMax stays sl1.max
newMinMax(W1, W2) ==
    IF greater(ItemKey(W2.sl.max), ItemKey(W1.sl.max))
    THEN [min |-> W2.sl.max, max |-> W1.sl.max]
    ELSE [min |-> newMin(W1, W2), max |-> W1.sl.max]

\* the world of a call that ended without a list
NoList(st) == [heap |-> <<>>, sl |-> <<>>, status |-> st]

\* lines 265-345, under the write locks of both lists: the new header, the
\* three loops.  max is newMaxLevel; make with a negative length panics.
CombineScan(W1, W2, rnds) ==
    LET max == newMaxLevel(W1, W2) IN
    IF max < 0 THEN [panic |-> TRUE]
    ELSE
    LET st0 == [h |-> (HeaderAddr :> newHeader(max)),
                previous |-> [i \in 0..(max - 1) |-> HeaderAddr],
                p1 |-> W1.heap[W1.sl.header].forward[0],
                p2 |-> W2.heap[W2.sl.header].forward[0],
                newMaxLevel |-> max, newLevel |-> 0, newSize |-> 0,
                tombstones |-> <<>>, n |-> 0, panic |-> FALSE]
    IN  mergeSecond(mergeFirst(mergeBoth(st0, W1, W2, rnds), W1, rnds),
                    W2, rnds)

\* lines 353-375, under the read locks of both lists: newMin, newMax and
\* the new list, of which st is what the loops left
CombineResult(W1, W2, st) ==
    IF W1.sl.min = NilItem \/ W2.sl.min = NilItem
       \/ W1.sl.max = NilItem \/ W2.sl.max = NilItem
    THEN NoList("panic")
    ELSE [heap |-> st.h,
          sl |-> [rw |-> [writer |-> FALSE, readers |-> 0],
                  maxLevel |-> st.newMaxLevel, level |-> st.newLevel,
                  size |-> st.newSize,
                  compareFunc |-> W1.sl.compareFunc,
                  header |-> HeaderAddr,
                  min |-> newMinMax(W1, W2).min,
                  max |-> newMinMax(W1, W2).max,
                  tombstones |-> st.tombstones],
          status |-> "ok"]

\* Combine called by the only goroutine: sl1 is the list of W1, sl2 the
\* list of W2, two lists that are not the same list, each with a heap of
\* its own.  The result is the world of the new list; the operands are left
\* as they were.
Combine(W1, W2, rnds) ==
    IF ~CanLock(W1) \/ ~CanLock(W2) THEN NoList("deadlock")
    ELSE LET st == CombineScan(W1, W2, rnds) IN
         IF st.panic THEN NoList("panic")
         ELSE CombineResult(W1, W2, st)

\* a second list: NewSkipList(MaxLevelArg) and one InsertAll of the keys of
\* S, every one with the value val
RECURSIVE insertEach(_, _, _, _)
insertEach(W, keys, i, val) ==
    IF i > Len(keys) \/ W.status # "ok" THEN W
    ELSE insertEach(InsertAllItem(W, keys[i], val, 1), keys, i + 1, val)

Built(S, val) ==
    InsertAllUnlock(insertEach(InsertAllLock(NewSkipList(MaxLevelArg)),
                               Ascending(S), 1, val))

\* the second operands of Combine
Operands == {Built(S, "b") : S \in (SUBSET Keys) \ {{}}}

\* the keys of the level-0 chain
KeySet(W) == SeqRange(ChainKeys(W))

NonEmpty(W) == Chain(W) # <<>>

\* the sorted union of the elements of A and B, B's value on a key of both
Union(A, B) ==
    LET ks == Ascending(KeySet(A) \cup KeySet(B)) IN
    [i \in 1..Len(ks) |->
        IF ks[i] \in KeySet(B) THEN <<ks[i], Search(B, ks[i]).val>>
        ELSE <<ks[i], Search(A, ks[i]).val>>]

----------------------------------------------------------------------------
(* C16 *)

\* C16: between two calls, for the list A of the state, not empty and
\* without tombstones, and every second list B, not empty and without
\* tombstones, built with the same comparator: Combine(A, B), when it
\* returns, iterates as the sorted union of the keys of A and B, each key
\* once, with B's value for every key of both.
C16_MergeUnion ==
    Idle /\ NonEmpty(World) /\ TombstoneFree(World) =>
        \A B \in Operands, rnds \in Streams :
            LET M == Combine(World, B, rnds) IN
            M.status = "ok" =>
                ToArray(M) = [panic |-> FALSE, items |-> Union(World, B)]

\* Combine of a list of -1 and 0, both with value "a", and a list of 0 and
\* 1 has returned the three keys, 0 with the value of the second list
C16_Witness ==
    /\ Idle
    /\ ChainItems(World) = << <<0 - 1, "a">>, <<0, "a">> >>
    /\ LET M == Combine(World, Built({0, 1}, "b"), <<1, 2>>) IN
       /\ M.status = "ok"
       /\ ToArray(M).items = << <<0 - 1, "a">>, <<0, "b">>, <<1, "b">> >>

----------------------------------------------------------------------------
(* C17 *)

\* C17: between two calls, for the list A of the state, not empty and
\* without tombstones, and every second list B, not empty and without
\* tombstones: the size of Combine(A, B), when it returns, is the number of
\* keys of A and B together, and the iteration of the result yields as
\* many elements.
C17_MergeSize ==
    Idle /\ NonEmpty(World) /\ TombstoneFree(World) =>
        \A B \in Operands, rnds \in Streams :
            LET M == Combine(World, B, rnds) IN
            M.status = "ok" =>
                /\ Size(M) = Cardinality(KeySet(World) \cup KeySet(B))
                /\ Size(M) = Len(ToArray(M).items)

\* Combine of a list of -1 and 0 and a list of 0, 1 and 2 has returned a
\* list of size 4
C17_Witness ==
    /\ Idle
    /\ KeySet(World) = {0 - 1, 0}
    /\ LET M == Combine(World, Built({0, 1, 2}, "b"), <<3, 2>>) IN
       /\ M.status = "ok"
       /\ Size(M) = 4

----------------------------------------------------------------------------
(* C18 *)

\* C18: between two calls, for the list A of the state, not empty, and
\* every second list B, not empty: when Combine(A, B) returns, Min() of the
\* result has the smaller of the keys of Min() of A and Min() of B, Max()
\* has the greater of the keys of Max() of A and Max() of B, and they are
\* the first and the last element of the iteration of the result.
C18_MergeMinMax ==
    Idle /\ NonEmpty(World) =>
        \A B \in Operands, rnds \in Streams :
            LET M == Combine(World, B, rnds)
                items == ToArray(M).items
                lo == IF ItemKey(Min(B)) < ItemKey(Min(World))
                      THEN ItemKey(Min(B)) ELSE ItemKey(Min(World))
                hi == IF ItemKey(Max(B)) > ItemKey(Max(World))
                      THEN ItemKey(Max(B)) ELSE ItemKey(Max(World))
            IN  M.status = "ok" =>
                    /\ ItemKey(Min(M)) = lo
                    /\ ItemKey(Max(M)) = hi
                    /\ Min(M) = items[1]
                    /\ Max(M) = items[Len(items)]

----------------------------------------------------------------------------
(* C19 *)

\* NewCustomKeySkipList, lines 43-55: as NewSkipList, but compareFunc is
\* Compare, which asks the Compare method that the key type brings
NewCustomKeySkipList(maxLevel) ==
    [NewSkipList(maxLevel) EXCEPT !.sl.compareFunc = "Compare"]

\* second lists of the same key type made by NewCustomKeySkipList, the key
\* type being one whose Compare method orders the keys otherwise than
\* cmp.Compare does.  Each has one key: the insertion into an empty list
\* compares nothing, so the list is the same under every comparator.
CustomOperands ==
    {InsertAllUnlock(InsertAllItem(
         InsertAllLock(NewCustomKeySkipList(MaxLevelArg)), k, "b", 1)) :
     k \in Keys}

\* C19: between two calls, for the list A of the state and a second list B
\* made with another comparator than A's, Combine(A, B) produces no list.
C19_MergeRejectsMismatch ==
    Idle /\ NonEmpty(World) =>
        \A B \in CustomOperands, rnds \in Streams :
            World.sl.compareFunc # B.sl.compareFunc =>
                Combine(World, B, rnds).status # "ok"

----------------------------------------------------------------------------
(* Two goroutines: one calls Combine(a, b), the other Combine(b, a) *)

Threads == 1..2

\* the list that goroutine i hands to Combine as sl1 (n = 1), as sl2 (n = 2)
Arg(i, n) == IF (i = 1) = (n = 1) THEN "a" ELSE "b"

Lists == [a |-> World, b |-> merge.b]

\* what Combine does to the locks, in the order of lines 262-364; the
\* loops run at "Scan", newMin and newMax are read after the second RLock,
\* the list is returned after the second RUnlock
Program ==
    << <<"Lock", 1>>, <<"Lock", 2>>, <<"Scan", 0>>,
       <<"Unlock", 1>>, <<"Unlock", 2>>, <<"RLock", 1>>, <<"RLock", 2>>,
       <<"RUnlock", 1>>, <<"RUnlock", 2>>, <<"Done", 0>> >>

\* goroutine i is about to do op to its n-th argument
At(i, op, n) == status = "ok" /\ Program[merge.t[i].pc] = <<op, n>>

\* goroutine i has done its step: L are the two lists, res is what the
\* call has computed, st is "panic" once the goroutine has panicked
MergeBecomes(L, i, res, st) ==
    /\ heap' = L.a.heap
    /\ sl' = L.a.sl
    /\ status' = st
    /\ last' = "Combine"
    /\ cursor' = cursor
    /\ merge' = [b |-> L.b,
                 t |-> [merge.t EXCEPT ![i] = [pc |-> @.pc + 1, res |-> res]]]

\* a program that has built two lists and started the two goroutines
MergeInit ==
    \E A \in {Built(S, "a") : S \in (SUBSET Keys) \ {{}}}, B \in Operands :
        /\ heap = A.heap
        /\ sl = A.sl
        /\ status = "ok"
        /\ last = "NewSkipList"
        /\ merge = [b |-> B, t |-> [i \in Threads |-> [pc |-> 1, res |-> <<>>]]]
        /\ cursor = NoIter

\* lines 262-263: sl1.rw.Lock(), sl2.rw.Lock()
MergeLock ==
    \E i \in Threads, n \in 1..2 :
        /\ At(i, "Lock", n)
        /\ CanLock(Lists[Arg(i, n)])
        /\ MergeBecomes([Lists EXCEPT ![Arg(i, n)] = Lock(@)], i, <<>>, "ok")

\* lines 265-345
MergeScan ==
    \E i \in Threads, rnds \in Streams :
        /\ At(i, "Scan", 0)
        /\ LET st == CombineScan(Lists[Arg(i, 1)], Lists[Arg(i, 2)], rnds) IN
           MergeBecomes(Lists, i, st, IF st.panic THEN "panic" ELSE "ok")

\* lines 347-348: sl1.rw.Unlock(), sl2.rw.Unlock()
MergeUnlock ==
    \E i \in Threads, n \in 1..2 :
        /\ At(i, "Unlock", n)
        /\ MergeBecomes([Lists EXCEPT ![Arg(i, n)] = Unlock(@)], i,
                        merge.t[i].res, "ok")

\* lines 350-361: sl1.rw.RLock(), sl2.rw.RLock(), then newMin and newMax
MergeRLock ==
    \E i \in Threads, n \in 1..2 :
        /\ At(i, "RLock", n)
        /\ CanRLock(Lists[Arg(i, n)])
        /\ LET L == [Lists EXCEPT ![Arg(i, n)] = RLock(@)]
               res == IF n = 1 THEN merge.t[i].res
                      ELSE CombineResult(L[Arg(i, 1)], L[Arg(i, 2)],
                                         merge.t[i].res)
           IN  MergeBecomes(L, i, res,
                            IF n = 2 /\ res.status = "panic" THEN "panic"
                            ELSE "ok")

\* lines 363-375: sl1.rw.RUnlock(), sl2.rw.RUnlock(), return
MergeRUnlock ==
    \E i \in Threads, n \in 1..2 :
        /\ At(i, "RUnlock", n)
        /\ MergeBecomes([Lists EXCEPT ![Arg(i, n)] = RUnlock(@)], i,
                        merge.t[i].res, "ok")

MergeNext ==
    \/ MergeLock
    \/ MergeScan
    \/ MergeUnlock
    \/ MergeRLock
    \/ MergeRUnlock

SpecMerge == MergeInit /\ [][MergeNext]_vars

\* goroutine i waits for a lock that it cannot take
Blocked(i) ==
    \E n \in 1..2 :
        \/ At(i, "Lock", n) /\ ~CanLock(Lists[Arg(i, n)])
        \/ At(i, "RLock", n) /\ ~CanRLock(Lists[Arg(i, n)])

----------------------------------------------------------------------------
(* C20 *)

\* C20: while one goroutine runs Combine(a, b) and another Combine(b, a),
\* the two never wait for each other: in every state of the running
\* program a goroutine that has not returned can take its next step, so
\* both calls return.
C20_CrossMergeReturns ==
    status = "ok" => \E i \in Threads : ~Blocked(i)

----------------------------------------------------------------------------
(* C24 *)

\* C24: between two calls, Insert of a key that the list does not hold
\* never waits for the lock of the list while it holds that lock itself,
\* and when it has returned nobody holds the lock.
C24_SetFreesLock ==
    Idle =>
        \A k \in Keys, v \in Vals, rnd \in Draws :
            ~Linked(World, k) =>
                LET W == Insert(World, k, v, rnd) IN
                /\ W.status # "deadlock"
                /\ W.status = "ok" => CanLock(W)

----------------------------------------------------------------------------
(* C26 *)

\* C26: between two calls, for every draw, SkipList.randomLevel returns a
\* level from 0 to the maxLevel of the list, a level for which the header
\* and the trace of searchNode (maxLevel slots) have a slot.
C26_LevelBound ==
    Idle =>
        \A rnd \in Draws :
            LET lvl == slRandomLevel(World, rnd) IN
            /\ lvl \in 0..sl.maxLevel
            /\ lvl \in DOMAIN heap[sl.header].forward
            /\ lvl \in DOMAIN MakeSlots(sl.maxLevel)

----------------------------------------------------------------------------
(* C27 *)

\* NewSkipList with any maxLevel from 1 to TopLevel
LevelsInit ==
    \E maxLevel \in 1..TopLevel :
        /\ heap = NewSkipList(maxLevel).heap
        /\ sl = NewSkipList(maxLevel).sl
        /\ status = "ok"
        /\ last = "NewSkipList"
        /\ merge = NoMerge
    /\ cursor = NoIter

\* the goroutine sets on a list of any maxLevel
SpecLevels == LevelsInit /\ [][SetNext]_vars

\* C27: between two calls on a list made with any maxLevel from 1 on, the
\* trace of searchNode has a slot for level 0, randomLevel shifts by no
\* negative amount, Search of any key does not panic, and a set of any
\* key and value (insert, under the lock of InsertAll) goes through for
\* some draw.
C27_EveryMaxLevelUsable ==
    Idle =>
        /\ 0 \in DOMAIN MakeSlots(sl.maxLevel)
        /\ ~ShiftPanics(sl.maxLevel - 1)
        /\ \A k \in Keys : ~Search(World, k).panic
        /\ \A k \in Keys, v \in Vals :
               \E rnd \in Draws :
                   InsertAllItem(InsertAllLock(World), k, v, rnd).status = "ok"

----------------------------------------------------------------------------
(* C28 *)

\* the items that Next returns, call after call, up to the first nil
RECURSIVE nextAll(_, _, _)
nextAll(h, curr, results) ==
    LET n == itNext(h, curr) IN
    IF n.item = NilItem THEN results
    ELSE nextAll(h, n.curr, Append(results, n.item))

\* C28: between two calls, the calls of Next on a new Iterator() return
\* the items of the nodes that are not tombstoned, each once, in the order
\* of the keys, then nil, and Next on the exhausted iterator returns nil
\* again and leaves it exhausted.
C28_NextVisitsLive ==
    Idle =>
        LET c == Chain(World)
            live(a) == ~heap[a].markedDeleted
            want == SelectSeq(c, live)
        IN  /\ nextAll(heap, Iterator(World), <<>>)
                   = [i \in 1..Len(want) |-> Item(heap[want[i]])]
            /\ Increasing(ItemKeys(nextAll(heap, Iterator(World), <<>>)))
            /\ itNext(heap, Nil) = [item |-> NilItem, curr |-> Nil]

----------------------------------------------------------------------------
(* The iterator with a replay buffer: iter, src/iterator.go lines 64-147 *)

\* Iterator(): the constructor of iter is not in the source; the cursor is
\* positioned at the head (the first Next moves to the first element),
\* nothing is seen yet, and there is no end.  seen is a Go slice: seen[i]
\* of the code is seen[i + 1] here.
newIter(W) ==
    [curr |-> W.sl.header, seen |-> <<>>, seenIdx |-> 0 - 1,
     end |-> [set |-> FALSE, key |-> ZeroKey]]

\* hasNext, lines 80-88
iterHasNext(h, c) ==
    LET n == h[c.curr].forward[0] IN
    IF n = Nil THEN FALSE
    ELSE IF c.end.set THEN less(h[n].key, c.end.key)
    ELSE TRUE

\* Next, lines 90-105
iterNext(h, c) ==
    IF c.seenIdx < Len(c.seen) - 1
    THEN [it |-> [c EXCEPT !.seenIdx = c.seenIdx + 1,
                           !.curr = c.seen[c.seenIdx + 2]],
          ok |-> TRUE]
    ELSE IF iterHasNext(h, c)
    THEN LET n == h[c.curr].forward[0] IN
         [it |-> [c EXCEPT !.curr = n,
                           !.seenIdx = c.seenIdx + 1,
                           !.seen = IF c.seenIdx + 1 >= Len(c.seen)
                                    THEN Append(c.seen, n) ELSE c.seen],
          ok |-> TRUE]
    ELSE [it |-> c, ok |-> FALSE]

\* a faulty Prev: seenIdx is not put back to 0 when nothing is before
iterPrevNoFloor(c) ==
    IF c.seenIdx - 1 >= 0
    THEN [it |-> [c EXCEPT !.seenIdx = c.seenIdx - 1,
                           !.curr = c.seen[c.seenIdx]],
          ok |-> TRUE]
    ELSE [it |-> [c EXCEPT !.seenIdx = c.seenIdx - 1], ok |-> FALSE]
\* Prev, lines 107-116
iterPrev(c) ==
    IF c.seenIdx - 1 >= 0
    THEN [it |-> [c EXCEPT !.seenIdx = c.seenIdx - 1,
                           !.curr = c.seen[c.seenIdx]],
          ok |-> TRUE]
    ELSE [it |-> [c EXCEPT !.seenIdx = 0], ok |-> FALSE]

\* Key, lines 118-124, and Value, lines 126-132
iterKey(h, c) == IF c.curr # Nil THEN h[c.curr].key ELSE ZeroKey
iterValue(h, c) == IF c.curr # Nil THEN h[c.curr].val ELSE ZeroVal

\* the loop of All, lines 142-144
RECURSIVE drain(_, _, _)
drain(h, c, pairs) ==
    LET n == iterNext(h, c) IN
    IF n.ok THEN drain(h, n.it, Append(pairs, Item(h[n.it.curr])))
    ELSE [it |-> n.it, pairs |-> pairs]

\* All, lines 135-147
iterAll(h, c) ==
    LET pairs == [i \in 1..Len(c.seen) |-> Item(h[c.seen[i]])]
        d == drain(h, [c EXCEPT !.seenIdx = Len(c.seen) - 1], pairs)
    IN  [it |-> [d.it EXCEPT !.seenIdx = c.seenIdx], pairs |-> d.pairs]

\* a program that has built a list and asked for its iterator
IterInit ==
    \E A \in {Built(S, v) : S \in SUBSET Keys, v \in Vals} :
        /\ heap = A.heap
        /\ sl = A.sl
        /\ status = "ok"
        /\ last = "Iterator"
        /\ merge = NoMerge
        /\ cursor = newIter(A)

CallNext ==
    /\ cursor' = iterNext(heap, cursor).it
    /\ last' = "Next"
    /\ UNCHANGED <<heap, sl, status, merge>>

\* the goroutine calls Prev once a Next has moved the cursor to an element
CallPrev ==
    /\ Len(cursor.seen) > 0
    /\ cursor' = iterPrev(cursor).it
    /\ last' = "Prev"
    /\ UNCHANGED <<heap, sl, status, merge>>

CursorNext ==
    \/ CallNext
    \/ CallPrev

SpecIter == IterInit /\ [][CursorNext]_vars

----------------------------------------------------------------------------
(* C29 *)

----------------------------------------------------------------------------
(* C30 *)

\* C30: wherever Next and Prev calls have taken the iterator, All leaves
\* Key and Value as they were, and Next and Prev after All return what
\* they return without it and lead to the same element.
C30_AllKeepsCursor ==
    LET after == iterAll(heap, cursor).it
        same(x, y) == x.ok = y.ok /\ iterKey(heap, x.it) = iterKey(heap, y.it)
    IN  /\ iterKey(heap, after) = iterKey(heap, cursor)
        /\ iterValue(heap, after) = iterValue(heap, cursor)
        /\ same(iterNext(heap, after), iterNext(heap, cursor))
        /\ same(iterPrev(after), iterPrev(cursor))

----------------------------------------------------------------------------
(* Two goroutines, each calling Insert or Delete once on the same list *)

\* a goroutine that has not called yet
NotCalled ==
    [pc |-> "Start", op |-> "", key |-> ZeroKey, val |-> ZeroVal, rnd |-> 0,
     update |-> <<>>, x |-> Nil, stale |-> FALSE]

\* a program that has built a list and started the two goroutines; merge.b
\* keeps the list as it was built
RaceInit ==
    \E A \in {Built(S, "a") : S \in SUBSET Keys} :
        /\ heap = A.heap
        /\ sl = A.sl
        /\ status = "ok"
        /\ last = "NewSkipList"
        /\ merge = [b |-> A, t |-> [i \in Threads |-> NotCalled]]
        /\ cursor = NoIter

\* the nodes that a goroutine other than i still points at, with the
\* update and x of its search: the garbage collector keeps them
Pinned(i) ==
    UNION {({merge.t[j].x} \cup {merge.t[j].update[n] : n \in DOMAIN merge.t[j].update})
               \ {Nil} :
           j \in {k \in Threads : k # i /\ merge.t[k].pc = "Searched"}}

\* goroutine i has done a step that left the world W and its locals rec;
\* wrote tells whether the step was the one under the write lock: the
\* searches of the other goroutines that it overtook are marked stale
RaceBecomes(W, i, rec, wrote) ==
    /\ heap' = [a \in DOMAIN W.heap \cup (Pinned(i) \cap DOMAIN heap) |->
                   IF a \in DOMAIN W.heap THEN W.heap[a] ELSE heap[a]]
    /\ sl' = W.sl
    /\ status' = W.status
    /\ last' = rec.op
    /\ merge' = [merge EXCEPT !.t =
                     [j \in Threads |->
                         IF j = i THEN rec
                         ELSE [merge.t[j] EXCEPT !.stale =
                                  @ \/ (wrote /\ merge.t[j].pc = "Searched")]]]
    /\ cursor' = cursor

\* Insert lines 107-110, Delete lines 157-160: searchNode under the read
\* lock
RaceSearch ==
    \E i \in Threads, op \in {"Insert", "Delete"}, key \in Keys, val \in Vals :
        /\ status = "ok"
        /\ merge.t[i].pc = "Start"
        /\ CanRLock(World)
        /\ LET s == searchNode(World, key) IN
           RaceBecomes(IF s.panic THEN Panic(RLock(World)) ELSE World, i,
                       [pc |-> "Searched", op |-> op, key |-> key,
                        val |-> IF op = "Insert" THEN val ELSE ZeroVal,
                        rnd |-> 0, update |-> s.previous,
                        x |-> heap[s.x].forward[0], stale |-> FALSE],
                       FALSE)

\* Insert lines 112-143, Delete lines 162-182: the rest under the write
\* lock, with the update and x of the search
RaceWrite ==
    \E i \in Threads, rnd \in Draws :
        /\ status = "ok"
        /\ merge.t[i].pc = "Searched"
        /\ CanLock(World)
        /\ LET c == merge.t[i] IN
           RaceBecomes(IF c.op = "Insert"
                       THEN InsertWrite(Lock(World), c.key, c.val, rnd,
                                        c.update, c.x)
                       ELSE DeleteWrite(Lock(World), c.key, c.update, c.x),
                       i,
                       [c EXCEPT !.pc = "Done",
                                 !.rnd = IF c.op = "Insert" THEN rnd ELSE 0],
                       TRUE)

RaceNext ==
    \/ RaceSearch
    \/ RaceWrite

SpecRace == RaceInit /\ [][RaceNext]_vars

----------------------------------------------------------------------------
(* C21 *)

\* the call of goroutine i, made by one goroutine alone after the calls
\* that led to W
alone(W, i) ==
    LET c == merge.t[i] IN
    IF W.status # "ok" THEN W
    ELSE IF c.op = "Insert" THEN Insert(W, c.key, c.val, c.rnd)
    ELSE Delete(W, c.key)

\* what the two goroutines leave behind
Outcome(W) == <<W.status, ChainItems(W), W.sl.size>>

----------------------------------------------------------------------------
(* C22 *)

\* C22: when two goroutines call Delete(k) on a list that holds k and both
\* calls return, the node is unlinked once and size is decremented once:
\* size is one less than before and equals the number of nodes of the
\* level-0 chain.
C22_ConcurrentDeletes ==
    LET t == merge.t IN
    (/\ status = "ok"
     /\ \A i \in Threads : t[i].pc = "Done" /\ t[i].op = "Delete"
     /\ t[1].key = t[2].key
     /\ Linked(merge.b, t[1].key)) =>
        /\ ~Linked(World, t[1].key)
        /\ Size(World) = Size(merge.b) - 1
        /\ Size(World) = Len(Chain(World))

----------------------------------------------------------------------------
(* A goroutine running one InsertAll or DeleteAll and a goroutine reading *)

\* the longest batch
MaxBatch == 2

\* the reads that take the read lock once (Search 230, Size 59, Min 91,
\* Max 99) and those that take it again while they hold it (IsEmpty 67 and
\* 70/59, Range 245 and 251/616)
OnceReads == {"Search", "Size", "Min", "Max"}
NestedReads == {"IsEmpty", "Range"}

\* what the read returns
answer(W, rop, lo, hi) ==
    CASE rop = "Search" -> Search(W, lo)
      [] rop = "Size" -> Size(W)
      [] rop = "Min" -> Min(W)
      [] rop = "Max" -> Max(W)
      [] rop = "IsEmpty" -> IsEmpty(W)
      [] rop = "Range" -> Range(W, lo, hi)

\* sync.RWMutex.RLock: a reader waits while a writer holds the lock and
\* while a writer waits for it
Admitted(W, t) == CanRLock(W) /\ t.w # "Waiting"

\* merge.b is the list as it was built, merge.t the two goroutines: w the
\* writer's position, n the items it has applied, r the reader's position,
\* got what the last read returned and want what it returns on the list
\* before the batch (after the batch once the batch has returned)
BulkInit ==
    \E A \in {Built(S, "a") : S \in SUBSET Keys} :
        /\ heap = A.heap
        /\ sl = A.sl
        /\ status = "ok"
        /\ last = "NewSkipList"
        /\ merge = [b |-> A,
                    t |-> [w |-> "Idle", op |-> "", n |-> 0, r |-> "Idle",
                           rop |-> "", lo |-> ZeroKey, hi |-> ZeroKey,
                           got |-> <<>>, want |-> <<>>]]
        /\ cursor = NoIter

BulkBecomes(W, t) ==
    /\ heap' = W.heap
    /\ sl' = W.sl
    /\ status' = W.status
    /\ last' = last
    /\ merge' = [merge EXCEPT !.t = t]
    /\ cursor' = cursor

\* InsertAll line 147, DeleteAll line 220: Lock() first announces the
\* writer, which keeps new readers out, ...
BulkCall ==
    \E op \in {"InsertAll", "DeleteAll"} :
        /\ status = "ok"
        /\ merge.t.w = "Idle"
        /\ BulkBecomes(World, [merge.t EXCEPT !.w = "Waiting", !.op = op])

\* ... and then waits until the readers have left
BulkLock ==
    /\ status = "ok"
    /\ merge.t.w = "Waiting"
    /\ CanLock(World)
    /\ BulkBecomes(Lock(World), [merge.t EXCEPT !.w = "In"])

\* InsertAll lines 149-151, DeleteAll lines 222-224: one item
BulkStep ==
    \E key \in Keys, val \in Vals, rnd \in Draws :
        /\ status = "ok"
        /\ merge.t.w = "In"
        /\ merge.t.n < MaxBatch
        /\ BulkBecomes(IF merge.t.op = "InsertAll"
                       THEN InsertAllItem(World, key, val, rnd)
                       ELSE DeleteAllItem(World, key),
                       [merge.t EXCEPT !.n = @ + 1])

\* InsertAll line 152, DeleteAll line 225
BulkReturn ==
    /\ status = "ok"
    /\ merge.t.w = "In"
    /\ BulkBecomes(IF merge.t.op = "InsertAll" THEN InsertAllUnlock(World)
                   ELSE DeleteAllUnlock(World),
                   [merge.t EXCEPT !.w = "Done"])

\* the list that a read outside the batch sees
Boundary == IF merge.t.w = "Done" THEN World ELSE merge.b

\* Search, Size, Min, Max: RLock, the read, RUnlock
ReadOnce ==
    \E rop \in OnceReads, lo \in Keys :
        /\ status = "ok"
        /\ merge.t.r = "Idle"
        /\ Admitted(World, merge.t)
        /\ BulkBecomes(World,
                       [merge.t EXCEPT !.rop = rop,
                                       !.got = answer(World, rop, lo, lo),
                                       !.want = answer(Boundary, rop, lo, lo)])

\* IsEmpty line 67, Range line 245: the first RLock
ReadEnter ==
    \E rop \in NestedReads, lo \in Keys, hi \in Keys :
        /\ status = "ok"
        /\ merge.t.r = "Idle"
        /\ Admitted(World, merge.t)
        /\ BulkBecomes(RLock(World),
                       [merge.t EXCEPT !.r = "Holding", !.rop = rop,
                                       !.lo = lo, !.hi = hi,
                                       !.got = <<>>, !.want = <<>>])

\* IsEmpty line 70 (Size, line 59), Range line 251 (iterator, line 616):
\* the second RLock, the read and the two RUnlocks
ReadNested ==
    /\ status = "ok"
    /\ merge.t.r = "Holding"
    /\ Admitted(World, merge.t)
    /\ LET t == merge.t IN
       BulkBecomes(RUnlock(World),
                   [t EXCEPT !.r = "Idle", !.lo = ZeroKey, !.hi = ZeroKey,
                             !.got = answer(World, t.rop, t.lo, t.hi),
                             !.want = answer(Boundary, t.rop, t.lo, t.hi)])

BulkNext ==
    \/ BulkCall
    \/ BulkLock
    \/ BulkStep
    \/ BulkReturn
    \/ ReadOnce
    \/ ReadEnter
    \/ ReadNested

SpecBulk == BulkInit /\ [][BulkNext]_vars

----------------------------------------------------------------------------
(* C23 *)

\* C23: what a Search (Get), Size, Min, Max, IsEmpty or Range returns to a
\* goroutine while another goroutine runs InsertAll or DeleteAll is what it
\* returns on the list before the whole batch or on the list after the
\* whole batch, never on a list with part of the batch applied.
C23_BulkAtomic ==
    merge.t.rop # "" /\ merge.t.r = "Idle" => merge.t.got = merge.t.want

\* a read has returned while the batch, with an item applied that changed
\* the list, was waiting to go on or had returned
C23_Witness ==
    /\ merge.t.rop = "Size"
    /\ merge.t.r = "Idle"
    /\ merge.t.w = "Done"
    /\ merge.t.n > 0
    /\ merge.t.got # Size(merge.b)

----------------------------------------------------------------------------
(* C25 *)

\* C25: a goroutine inside IsEmpty or Range is never kept from going on by
\* a writer that waits for the write lock: it holds the read lock once and
\* does not ask for it again, so it returns.
C25_ReadReturns ==
    status = "ok" /\ merge.t.r = "Holding" => Admitted(World, merge.t)

----------------------------------------------------------------------------
(* Copy, lines 379-412 *)

\* the loop of lines 388-400: a new node for every node of the chain, the
\* tombstoned ones too, each with a level drawn by sl.randomLevel and
\* without the mark of the node it copies
RECURSIVE copyEach(_, _, _)
copyEach(st, W, rnds) ==
    IF st.panic \/ st.p = Nil THEN st
    ELSE
    LET level == slRandomLevel(W, drawOf(rnds, st.n + 1))
        node == W.heap[st.p]
    IN  IF linkPanics(st.h, st.previous, level) THEN [st EXCEPT !.panic = TRUE]
        ELSE
        LET x == NewAddr(st.h, node.key) IN
        copyEach([st EXCEPT
                     !.h = link(st.h, st.previous, x, level, node.key, node.val),
                     !.previous = [i \in DOMAIN st.previous |->
                                      IF i <= level THEN x ELSE st.previous[i]],
                     !.newLvl = IF level > @ THEN level ELSE @,
                     !.p = node.forward[0],
                     !.n = st.n + 1],
                 W, rnds)

\* Copy called by the only goroutine on the list of W: the world of the new
\* list, which has a heap of its own.  The literal of lines 403-411 sets no
\* compareFunc, and tombstones is the slice of the original.
Copy(W, rnds) ==
    IF W.sl.maxLevel < 0 THEN NoList("panic")
    ELSE IF ~CanRLock(W) THEN NoList("deadlock")
    ELSE
    LET first == W.heap[W.sl.header].forward[0]
        st0 == [h |-> (HeaderAddr :> newHeader(W.sl.maxLevel)),
                previous |-> [i \in 0..(W.sl.maxLevel - 1) |-> HeaderAddr],
                newLvl |-> W.sl.level, p |-> first, n |-> 0, panic |-> FALSE]
    IN  IF first # Nil /\ ShiftPanics(W.sl.maxLevel - 1) THEN NoList("panic")
        ELSE
        LET st == copyEach(st0, W, rnds) IN
        IF st.panic THEN NoList("panic")
        ELSE [heap |-> st.h,
              sl |-> [rw |-> [writer |-> FALSE, readers |-> 0],
                      maxLevel |-> W.sl.maxLevel, level |-> st.newLvl,
                      size |-> W.sl.size,
                      compareFunc |-> "nil",
                      header |-> HeaderAddr,
                      min |-> W.sl.min,
                      max |-> W.sl.max,
                      tombstones |-> W.sl.tombstones],
              status |-> "ok"]

----------------------------------------------------------------------------
(* C31 *)

\* C31: between two calls, Copy, when it returns, returns a list on which
\* Search of every key returns normally what it returns on the original,
\* whose size is the original's and whose iteration returns the items of
\* the original that are not tombstoned.
C31_CopyEquivalent ==
    Idle =>
        \A rnds \in Streams :
            LET C == Copy(World, rnds)
                live(it) == Search(World, ItemKey(it)).ok
            IN  C.status = "ok" =>
                    /\ \A k \in Keys : Search(C, k) = Search(World, k)
                    /\ Size(C) = Size(World)
                    /\ ToArray(C) = [panic |-> FALSE,
                                     items |-> SelectSeq(ChainItems(World), live)]

----------------------------------------------------------------------------
(* C32 *)

\* the nodes that forward[i] leads through from node a on, at most fuel of
\* them
RECURSIVE chainAt(_, _, _, _)
chainAt(h, a, i, fuel) ==
    IF a = Nil \/ fuel = 0 \/ i \notin DOMAIN h[a].forward THEN <<>>
    ELSE <<a>> \o chainAt(h, h[a].forward[i], i, fuel - 1)

\* the chain of level i of the list of W
LevelChain(W, i) ==
    chainAt(W.heap, W.heap[W.sl.header].forward[i], i, Cardinality(DOMAIN W.heap))

\* C32: after any sequence of Insert, InsertAll, Delete and DeleteAll (and
\* Clear) by one goroutine, the chain of every level up to sl.level has
\* strictly increasing keys and ends in nil, and every node of the chain of
\* a level above 0 is in the chain of the level below; and a Delete of a
\* key that has a node, once it has returned, leaves no node with that key
\* in the chain of any level of the header.
C32_LevelChains ==
    status = "ok" =>
        /\ \A i \in 0..sl.level :
              LET c == LevelChain(World, i) IN
              /\ Increasing([n \in 1..Len(c) |-> heap[c[n]].key])
              /\ Len(c) < Cardinality(DOMAIN heap)
              /\ \A n \in 1..Len(c) : i \in DOMAIN heap[c[n]].forward
              /\ i > 0 => SeqRange(c) \subseteq SeqRange(LevelChain(World, i - 1))
        /\ \A k \in Keys : Linked(World, k) =>
              \A W \in DeleteReturns(k) :
                  \A i \in DOMAIN W.heap[W.sl.header].forward :
                      \A a \in SeqRange(LevelChain(W, i)) : W.heap[a].key # k

\* Delete has returned, the list holds three keys and one of them is in
\* the chain of level 1
C32_Witness ==
    /\ Idle
    /\ last = "Delete"
    /\ sl.level = 1
    /\ Len(LevelChain(World, 0)) = 3
    /\ Len(LevelChain(World, 1)) >= 1

----------------------------------------------------------------------------
(* C33 *)

\* the highest level at which the header of W has a successor, 0 when it
\* has none
Occupied(W) ==
    LET f == W.heap[W.sl.header].forward
        used == {i \in DOMAIN f : f[i] # Nil}
    IN  IF used = {} THEN 0 ELSE CHOOSE i \in used : \A j \in used : j <= i

\* C33: after any sequence of Insert, InsertAll, Delete, DeleteAll and
\* Clear by one goroutine, sl.level is the highest level at which the
\* header has a successor, 0 when the list is empty; an insertion of a new
\* key whose drawn level is above sl.level leaves sl.level at the drawn
\* level.
C33_LevelIsHighest ==
    /\ status = "ok" => sl.level = Occupied(World)
    /\ InBatch("InsertAll") =>
          \A key \in Keys, val \in Vals, rnd \in Draws :
              LET W == InsertAllItem(World, key, val, rnd)
                  lvl == slRandomLevel(World, rnd)
              IN  ~Linked(World, key) /\ W.status = "ok" /\ lvl > sl.level =>
                      W.sl.level = lvl

\* between two calls the list has level 1, and Delete of the only key of
\* level 1 returns and leaves a list of level 0 that is not empty
C33_Witness ==
    /\ Idle
    /\ sl.level = 1
    /\ \E k \in Keys :
          LET W == Delete(World, k) IN
          /\ W.status = "ok"
          /\ W.sl.level = 0
          /\ Chain(W) # <<>>

----------------------------------------------------------------------------
(* C34 *)

\* C34: between two calls, for the list A of the state, not empty and
\* without tombstones, and every second list B, not empty and without
\* tombstones: the list that Combine(A, B) returns has as its level the
\* highest level of its nodes, those emitted after one list has run out
\* included, and a Delete on it of a key it holds, once it has returned,
\* leaves no node with that key in the chain of any level.
C34_MergeWellFormed ==
    Idle /\ NonEmpty(World) /\ TombstoneFree(World) =>
        \A B \in Operands, rnds \in Streams :
            LET M == Combine(World, B, rnds) IN
            M.status = "ok" =>
                /\ M.sl.level = Occupied(M)
                /\ \A k \in Keys : Linked(M, k) =>
                      LET D == Delete(M, k) IN
                      D.status = "ok" =>
                          \A i \in DOMAIN D.heap[D.sl.header].forward :
                              \A a \in SeqRange(LevelChain(D, i)) :
                                  D.heap[a].key # k

----------------------------------------------------------------------------
(* C35 *)

\* C35: between two calls, for the list A of the state and every second
\* list B, not empty and without tombstones: in the list that Combine(A, B)
\* returns, a key that is tombstoned in A and that B does not hold is not
\* found by Search and not returned by the iteration, and the tombstones of
\* the result are nodes of the result.
C35_MergeHidesTombstones ==
    Idle /\ NonEmpty(World) =>
        \A B \in Operands, rnds \in Streams :
            LET M == Combine(World, B, rnds)
                dead == {heap[a].key : a \in SeqRange(Chain(World)) \ Live(World)}
            IN  M.status = "ok" =>
                    /\ \A k \in dead \ KeySet(B) :
                          /\ ~Search(M, k).ok
                          /\ k \notin SeqRange(ItemKeys(ToArray(M).items))
                    /\ \A n \in DOMAIN M.sl.tombstones :
                          M.sl.tombstones[n].of \notin {"sl1", "sl2"}

----------------------------------------------------------------------------
(* C36 *)

\* C36: between two calls, for the list A of the state, without
\* tombstones, and every second list B without tombstones, one of the two
\* (or both) empty: Combine(A, B) returns, and the list it returns has the
\* iteration, the size, Min() and Max() of the operand that is not empty
\* (of the empty list when both are).
C36_MergeEmptyOperand ==
    Idle /\ TombstoneFree(World) =>
        \A B \in {Built(S, "b") : S \in SUBSET Keys}, rnds \in Streams :
            ~NonEmpty(World) \/ ~NonEmpty(B) =>
                LET M == Combine(World, B, rnds)
                    other == IF NonEmpty(World) THEN World ELSE B
                IN  /\ M.status = "ok"
                    /\ ToArray(M) = ToArray(other)
                    /\ Size(M) = Size(other)
                    /\ Min(M) = Min(other)
                    /\ Max(M) = Max(other)

----------------------------------------------------------------------------
(* Two goroutines, each calling Insert, Delete or InsertAll once *)

\* InsertAll lines 147-153 with a slice of one item: Lock, insert, Unlock
RaceInsertAll ==
    \E i \in Threads, key \in Keys, val \in Vals, rnd \in Draws :
        /\ status = "ok"
        /\ merge.t[i].pc = "Start"
        /\ CanLock(World)
        /\ RaceBecomes(InsertAllUnlock(InsertAllItem(InsertAllLock(World),
                                                     key, val, rnd)),
                       i,
                       [NotCalled EXCEPT !.pc = "Done", !.op = "InsertAll",
                                         !.key = key, !.val = val, !.rnd = rnd],
                       TRUE)

RaceAllNext ==
    \/ RaceNext
    \/ RaceInsertAll

SpecRaceAll == RaceInit /\ [][RaceAllNext]_vars

----------------------------------------------------------------------------
(* C37 *)

\* C37: a goroutine that has made the descent of Insert(k, v) and goes on
\* under the write lock, after the other goroutine's Insert, Delete or
\* InsertAll of another key has come between, dereferences no nil slot of
\* update (whatever level in the range of the list it draws); and when it
\* returns, k has a node in the level-0 chain and Search(k) returns
\* (v, true).
C37_SetSurvivesRace ==
    \A i \in Threads :
        LET c == merge.t[i] IN
        (/\ status = "ok"
         /\ c.pc = "Searched"
         /\ c.op = "Insert"
         /\ CanLock(World)
         /\ \A j \in Threads \ {i} :
               merge.t[j].pc = "Done" /\ merge.t[j].key # c.key) =>
            \A rnd \in Draws :
                slRandomLevel(World, rnd) \in DOMAIN c.update =>
                    LET W == InsertWrite(Lock(World), c.key, c.val, rnd,
                                         c.update, c.x)
                    IN  /\ W.status # "panic"
                        /\ W.status = "ok" =>
                              /\ Linked(W, c.key)
                              /\ Search(W, c.key) = Found(c.val)

----------------------------------------------------------------------------
(* C38 *)

\* C38: a Set of value v on the key k that is the smallest (greatest) of
\* the list, once it has returned (once the InsertAll it is a turn of has
\* returned), leaves Min() (Max()) at the pair (k, v), which is the first
\* (last) element that the iteration returns.
C38_MinMaxCarryValue ==
    \A k \in Keys, v \in Vals : Linked(World, k) =>
        \A W \in SetReturns(k, v) :
            LET R == IF W.sl.rw.writer THEN InsertAllUnlock(W) ELSE W
                items == ToArray(R).items
                ks == ChainKeys(World)
            IN  /\ k = ks[1] => Min(R) = <<k, v>> /\ Min(R) = items[1]
                /\ k = ks[Len(ks)] =>
                      Max(R) = <<k, v>> /\ Max(R) = items[Len(items)]

----------------------------------------------------------------------------
(* C39 *)

\* C39: between two calls, after any Insert, InsertAll and LazyDelete
\* calls, Min() and Max() are nil exactly when no node is left that is not
\* tombstoned, and otherwise have the smallest and the greatest key of the
\* nodes that are not tombstoned; and a LazyDelete of a key that has a
\* node and is neither the key of Min() nor the key of Max(), once it has
\* returned, leaves Min() and Max() as they were.
C39_LazyMinMax ==
    Idle =>
        LET liveKeys == {heap[a].key : a \in Live(World)} IN
        /\ (Min(World) = NilItem) = (liveKeys = {})
        /\ (Max(World) = NilItem) = (liveKeys = {})
        /\ liveKeys # {} /\ Min(World) # NilItem /\ Max(World) # NilItem =>
              /\ \A j \in liveKeys : ItemKey(Min(World)) <= j
              /\ \A j \in liveKeys : j <= ItemKey(Max(World))
              /\ ItemKey(Min(World)) \in liveKeys
              /\ ItemKey(Max(World)) \in liveKeys
              /\ \A k \in liveKeys \ {ItemKey(Min(World)), ItemKey(Max(World))} :
                    \A W \in LazyDeleteReturns(k) :
                        Min(W) = Min(World) /\ Max(W) = Max(World)

----------------------------------------------------------------------------
(* C40 *)

\* C40: wherever Next and Prev calls have taken the iterator, All returns
\* the elements of the list, each of them once and in increasing order of
\* the keys, and leaves no node twice in seen.
C40_AllOnce ==
    LET r == iterAll(heap, cursor) IN
    /\ r.pairs = ChainItems(World)
    /\ Increasing(ItemKeys(r.pairs))
    /\ \A i, j \in DOMAIN r.it.seen : i # j => r.it.seen[i] # r.it.seen[j]

====
